---- MODULE Spec2Model ----
(***************************************************************************)
(* RouteSync supply-chain canister (src/src/lib.rs): the four global       *)
(* stores, the identifier generator, the three update handlers, the five   *)
(* query handlers and the authenticity scan.                               *)
(*                                                                         *)
(* Every handler runs to completion as one message, and the platform clock *)
(* ic_cdk::api::time() has one value for the whole message, so each        *)
(* handler is one action that reads one clock value.                       *)
(***************************************************************************)
EXTENDS Integers, Sequences, FiniteSets, TLC

VARIABLES
    PRODUCTS,      \* Option<HashMap<String, Product>>
    TRACES,        \* Option<HashMap<String, SupplyChainTrace>>
    EVENTS,        \* Option<HashMap<String, SupplyChainEvent>>
    PARTICIPANTS,  \* Option<HashMap<String, Participant>>
    time,          \* the last value ic_cdk::api::time() returned (nanoseconds)
    ret,           \* the last update call: its name, arguments and return value
    created,       \* log of the create_product calls that wrote to the stores
    appended,      \* log of the add_supply_chain_event calls that wrote to the stores
    registered     \* log of the register_participant calls that wrote to the store

vars == <<PRODUCTS, TRACES, EVENTS, PARTICIPANTS, time, ret, created, appended, registered>>

stores == <<PRODUCTS, TRACES, EVENTS, PARTICIPANTS>>

(***************************************************************************)
(* Bounds of the model.                                                    *)
(***************************************************************************)
\* clock readings range over the coarse timestamps 0..MaxStamp
MaxStamp == 1
\* at most MaxCalls update calls that write to a store
MaxCalls == 3
\* in the runs about the ids, clock readings range over the coarse timestamps 0..MaxIdStamp
MaxIdStamp == 3

(***************************************************************************)
(* Program constants.                                                      *)
(***************************************************************************)
NanosPerStamp == 1000000
IdModulus == 10000

(***************************************************************************)
(* Option<T> and HashMap<String, T>.                                       *)
(***************************************************************************)
None == <<>>

Some(v) == <<v>>

IsSome(o) == Len(o) = 1

Unwrap(o) == o[1]

EmptyMap == [k \in {} |-> 0]

\* HashMap::insert: adds the key or overwrites its value
Insert(m, k, v) == [x \in (DOMAIN m) \cup {k} |-> IF x = k THEN v ELSE m[x]]

\* the keys of an Option<HashMap>; a store that is None has none
Keys(o) == IF IsSome(o) THEN DOMAIN Unwrap(o) ELSE {}

\* Result<T, String>
Ok(v) == [tag |-> "Ok", val |-> v]

Err(e) == [tag |-> "Err", val |-> e]

(***************************************************************************)
(* The clock.  A reading is a number of nanoseconds; the offsets within a  *)
(* coarse timestamp give two readings that differ in the id's second part. *)
(***************************************************************************)
ClockOffsets == {0, 1}

ClockValues == {s * NanosPerStamp + o : s \in 0..MaxStamp, o \in ClockOffsets}

\* the platform clock never goes back from one message to the next
MonotoneClock(t) == {c \in ClockValues : c >= t}

get_current_timestamp(now) == now \div NanosPerStamp

\* variant: the second part of the id is the clock value itself, not its remainder
generate_id_NoModulus(now) ==
    ToString(get_current_timestamp(now)) \o "_" \o ToString(now)

generate_id(now) ==
    LET timestamp == get_current_timestamp(now)
        random_part == now % IdModulus
    IN  ToString(timestamp) \o "_" \o ToString(random_part)

\* the calls logged so far
Calls == Len(created) + Len(appended) + Len(registered)

\* a call that writes is taken only while fewer than MaxCalls are logged
Budget(writes) == writes => Calls < MaxCalls

\* the product ids a caller may pass: every id the model can generate
IdInputs == {generate_id(c) : c \in ClockValues}

(***************************************************************************)
(* Caller-supplied arguments.                                              *)
(***************************************************************************)
ProductArgs ==
    { [name |-> "Milk Batch A", description |-> "whole milk", manufacturer |-> "Farm Co",
       batch_number |-> "B1", ingredients |-> <<"milk">>, certifications |-> <<"organic">>],
      [name |-> "Tea", description |-> "", manufacturer |-> "Leaf Ltd",
       batch_number |-> "B2", ingredients |-> <<"tea", "mint">>, certifications |-> <<>>] }

EventArgs ==
    { [event_type |-> "Production", location |-> "Farm", actor |-> "Farm Co", details |-> "",
       coordinates |-> None, temperature |-> None, humidity |-> None],
      [event_type |-> "Shipping", location |-> "Port", actor |-> "Ship Inc", details |-> "cold",
       coordinates |-> Some(<<51, 4>>), temperature |-> Some(4), humidity |-> Some(60)] }

ParticipantArgs ==
    { [name |-> "Farm Co", role |-> "Manufacturer", location |-> "Farm", public_key |-> "k1"] }

\* a second registration, for the runs that are about the participants alone
MoreParticipantArgs ==
    ParticipantArgs \cup
    { [name |-> "Shop", role |-> "Retailer", location |-> "Town", public_key |-> ""] }

NoCall == [op |-> "none", arg |-> "", result |-> ""]

\* a call's record: its name, the id it was given, what it returned; the clock value
\* it read is the value of time after it, and the rest of its arguments are in its log
Call(op, arg, result) == [op |-> op, arg |-> arg, result |-> result]

(***************************************************************************)
(* The state of a freshly loaded module: the four statics are None.        *)
(***************************************************************************)
Init ==
    /\ PRODUCTS = None
    /\ TRACES = None
    /\ EVENTS = None
    /\ PARTICIPANTS = None
    /\ time = 0
    /\ ret = NoCall
    /\ created = <<>>
    /\ appended = <<>>
    /\ registered = <<>>

Initialized == IsSome(PRODUCTS) /\ IsSome(TRACES) /\ IsSome(EVENTS) /\ IsSome(PARTICIPANTS)

\* #[init]: the platform runs it once, on the freshly loaded module
\* variant: the trace store is left as it was
init_ForgetsTraces ==
    /\ PRODUCTS = None /\ TRACES = None /\ EVENTS = None /\ PARTICIPANTS = None
    /\ PRODUCTS' = Some(EmptyMap)
    /\ TRACES' = TRACES
    /\ EVENTS' = Some(EmptyMap)
    /\ PARTICIPANTS' = Some(EmptyMap)
    /\ ret' = Call("init", "", "")
    /\ UNCHANGED <<time, created, appended, registered>>

init ==
    /\ PRODUCTS = None /\ TRACES = None /\ EVENTS = None /\ PARTICIPANTS = None
    /\ PRODUCTS' = Some(EmptyMap)
    /\ TRACES' = Some(EmptyMap)
    /\ EVENTS' = Some(EmptyMap)
    /\ PARTICIPANTS' = Some(EmptyMap)
    /\ ret' = Call("init", "", "")
    /\ UNCHANGED <<time, created, appended, registered>>

(***************************************************************************)
(* create_product                                                          *)
(***************************************************************************)
NewProduct(product_id, a, now) ==
    [id |-> product_id, name |-> a.name, description |-> a.description,
     manufacturer |-> a.manufacturer, batch_number |-> a.batch_number,
     production_date |-> get_current_timestamp(now),
     ingredients |-> a.ingredients, certifications |-> a.certifications]

NewTrace(product_id, now) ==
    [product_id |-> product_id, events |-> <<>>,
     created_at |-> get_current_timestamp(now),
     last_updated |-> get_current_timestamp(now)]

\* the stores after the insert of the product and of its initial trace
ProductsAfterCreate(product_id, product) ==
    IF IsSome(PRODUCTS) THEN Some(Insert(Unwrap(PRODUCTS), product_id, product)) ELSE PRODUCTS

\* variant: an id that already has a trace keeps it
TracesAfterCreate_KeepExisting(product_id, trace) ==
    IF IsSome(TRACES) /\ product_id \notin DOMAIN Unwrap(TRACES)
    THEN Some(Insert(Unwrap(TRACES), product_id, trace))
    ELSE TRACES

\* variant: the initial trace is not stored
TracesAfterCreate_NoInsert(product_id, trace) == TRACES

TracesAfterCreate(product_id, trace) ==
    IF IsSome(TRACES) THEN Some(Insert(Unwrap(TRACES), product_id, trace)) ELSE TRACES

create_product(now) ==
    /\ Budget(IsSome(PRODUCTS))
    /\ \E a \in ProductArgs :
         LET product_id == generate_id(now)
             product == NewProduct(product_id, a, now)
             trace == NewTrace(product_id, now)
         IN  /\ PRODUCTS' = ProductsAfterCreate(product_id, product)
             /\ TRACES' = TracesAfterCreate(product_id, trace)
             /\ ret' = Call("create_product", "", product_id)
             /\ created' = IF IsSome(PRODUCTS)
                           THEN Append(created, [id |-> product_id, arg |-> a, now |-> now])
                           ELSE created
    /\ time' = now
    /\ UNCHANGED <<EVENTS, PARTICIPANTS, appended, registered>>

(***************************************************************************)
(* add_supply_chain_event                                                  *)
(***************************************************************************)
ProductNotFound == "Product not found"

NewEvent(event_id, product_id, a, now) ==
    [id |-> event_id, product_id |-> product_id, event_type |-> a.event_type,
     location |-> a.location, timestamp |-> get_current_timestamp(now),
     actor |-> a.actor, details |-> a.details, coordinates |-> a.coordinates,
     temperature |-> a.temperature, humidity |-> a.humidity]

\* "Verify product exists": the early return is taken only when PRODUCTS is Some
RejectsEvent(product_id) ==
    IsSome(PRODUCTS) /\ product_id \notin DOMAIN Unwrap(PRODUCTS)

EventsAfterAdd(event_id, event) ==
    IF IsSome(EVENTS) THEN Some(Insert(Unwrap(EVENTS), event_id, event)) ELSE EVENTS

\* variant: the append also stamps created_at
PushEvent_StampsCreated(trace, event, now) ==
    [trace EXCEPT !.events = Append(@, event),
                  !.created_at = get_current_timestamp(now),
                  !.last_updated = get_current_timestamp(now)]

\* variant: the event is put in front of the earlier ones
PushEvent_Prepends(trace, event, now) ==
    [trace EXCEPT !.events = <<event>> \o @,
                  !.last_updated = get_current_timestamp(now)]

\* trace.events.push(event); trace.last_updated = get_current_timestamp()
PushEvent(trace, event, now) ==
    [trace EXCEPT !.events = Append(@, event),
                  !.last_updated = get_current_timestamp(now)]

\* variant: the append stamps last_updated in every trace
TracesAfterAdd_StampsAll(product_id, event, now) ==
    IF IsSome(TRACES) /\ product_id \in DOMAIN Unwrap(TRACES)
    THEN Some([id \in DOMAIN Unwrap(TRACES) |->
                 IF id = product_id
                 THEN PushEvent(Unwrap(TRACES)[id], event, now)
                 ELSE [Unwrap(TRACES)[id] EXCEPT !.last_updated = get_current_timestamp(now)]])
    ELSE TRACES

TracesAfterAdd(product_id, event, now) ==
    IF IsSome(TRACES) /\ product_id \in DOMAIN Unwrap(TRACES)
    THEN Some([Unwrap(TRACES) EXCEPT ![product_id] = PushEvent(@, event, now)])
    ELSE TRACES

add_supply_chain_event(now) ==
    /\ \E product_id \in IdInputs, a \in EventArgs :
         LET event_id == generate_id(now)
             event == NewEvent(event_id, product_id, a, now)
             result == IF RejectsEvent(product_id) THEN ProductNotFound ELSE event_id
         IN  /\ Budget(IsSome(EVENTS) /\ ~RejectsEvent(product_id))
             /\ IF RejectsEvent(product_id)
                THEN UNCHANGED <<EVENTS, TRACES>>
                ELSE /\ EVENTS' = EventsAfterAdd(event_id, event)
                     /\ TRACES' = TracesAfterAdd(product_id, event, now)
             /\ ret' = Call("add_supply_chain_event", product_id, result)
             /\ appended' = IF IsSome(EVENTS) /\ ~RejectsEvent(product_id)
                            THEN Append(appended, [product_id |-> product_id, event |-> event])
                            ELSE appended
    /\ time' = now
    /\ UNCHANGED <<PRODUCTS, PARTICIPANTS, created, registered>>

(***************************************************************************)
(* register_participant                                                    *)
(***************************************************************************)
NewParticipant(participant_id, a) ==
    [id |-> participant_id, name |-> a.name, role |-> a.role, location |-> a.location,
     public_key |-> a.public_key, is_verified |-> FALSE]

register_participant(now, a) ==
    /\ Budget(IsSome(PARTICIPANTS))
    /\   LET participant_id == generate_id(now)
             participant == NewParticipant(participant_id, a)
         IN  /\ PARTICIPANTS' = IF IsSome(PARTICIPANTS)
                                THEN Some(Insert(Unwrap(PARTICIPANTS), participant_id, participant))
                                ELSE PARTICIPANTS
             /\ ret' = Call("register_participant", "", participant_id)
             /\ registered' = IF IsSome(PARTICIPANTS)
                              THEN Append(registered, [id |-> participant_id, arg |-> a, now |-> now])
                              ELSE registered
    /\ time' = now
    /\ UNCHANGED <<PRODUCTS, TRACES, EVENTS, created, appended>>

test_simple_result == "Hello from canister"

\* it writes nothing and reads neither the stores nor the clock
test_simple ==
    /\ test_simple_result # ""
    /\ UNCHANGED vars

(***************************************************************************)
(* Query handlers.  None of them reads the clock or writes anything: each  *)
(* computes its response from the stores and its argument, and the         *)
(* response of handler h to argument x in a state is h_result(x) there.    *)
(* A query step answers (responses is the set of the answers the handler   *)
(* can give in the state, over its arguments) and changes nothing.         *)
(***************************************************************************)
Query(responses) ==
    /\ responses # {}
    /\ UNCHANGED vars

get_product_result(product_id) ==
    IF IsSome(PRODUCTS)
    THEN IF product_id \in DOMAIN Unwrap(PRODUCTS)
         THEN Ok(Unwrap(PRODUCTS)[product_id])
         ELSE Err("Product not found")
    ELSE Err("Products not initialized")

get_product ==
    Query({get_product_result(product_id) : product_id \in IdInputs})

get_supply_chain_trace_result(product_id) ==
    IF IsSome(TRACES) /\ product_id \in DOMAIN Unwrap(TRACES)
    THEN Some(Unwrap(TRACES)[product_id])
    ELSE None

get_supply_chain_trace ==
    Query({get_supply_chain_trace_result(product_id) : product_id \in IdInputs})

\* map.values().cloned().collect(): every value once, in the map's iteration order,
\* which is any order
Values(o) ==
    IF IsSome(o)
    THEN LET m == Unwrap(o)
             n == Cardinality(DOMAIN m)
         IN  {[i \in 1..n |-> m[f[i]]] :
                 f \in {g \in [1..n -> DOMAIN m] : \A i, j \in 1..n : g[i] = g[j] => i = j}}
    ELSE {<<>>}

get_all_products == Query(Values(PRODUCTS))

get_participants == Query(Values(PARTICIPANTS))

(***************************************************************************)
(* verify_product_authenticity                                             *)
(***************************************************************************)
\* the loop over trace.events[1..], from index i (1-based) with prev_timestamp
RECURSIVE ScanFrom(_, _, _)
ScanFrom(events, i, prev_timestamp) ==
    IF i > Len(events) THEN TRUE
    ELSE IF events[i].timestamp < prev_timestamp THEN FALSE
    ELSE ScanFrom(events, i + 1, events[i].timestamp)

\* variant: the scan compares with <= and so rejects equal timestamps
TraceVerdict_RejectsEqual(trace) ==
    /\ trace.events # <<>>
    /\ \A i \in 2..Len(trace.events) :
           trace.events[i].timestamp > trace.events[i - 1].timestamp

\* the verdict for a trace that was found
TraceVerdict(trace) ==
    IF trace.events = <<>> THEN FALSE
    ELSE ScanFrom(trace.events, 2, trace.events[1].timestamp)

\* variant: the trace is looked up without the product check before it
verify_product_authenticity_result_NoProductCheck(product_id) ==
    IF ~IsSome(PRODUCTS) THEN Err("Products not initialized")
    ELSE IF ~IsSome(TRACES) THEN Err("Traces not initialized")
    ELSE IF product_id \in DOMAIN Unwrap(TRACES)
         THEN Ok(TraceVerdict(Unwrap(TRACES)[product_id]))
         ELSE Ok(FALSE)

verify_product_authenticity_result(product_id) ==
    IF ~IsSome(PRODUCTS) THEN Err("Products not initialized")
    ELSE IF product_id \notin DOMAIN Unwrap(PRODUCTS) THEN Err("Product not found")
    ELSE IF ~IsSome(TRACES) THEN Err("Traces not initialized")
    ELSE IF product_id \in DOMAIN Unwrap(TRACES)
         THEN Ok(TraceVerdict(Unwrap(TRACES)[product_id]))
         ELSE Ok(FALSE)

verify_product_authenticity ==
    Query({verify_product_authenticity_result(product_id) : product_id \in IdInputs})

(***************************************************************************)
(* Specifications.                                                         *)
(***************************************************************************)
Queries ==
    \/ get_product
    \/ get_supply_chain_trace
    \/ get_all_products
    \/ get_participants
    \/ verify_product_authenticity
    \/ test_simple

\* the platform's clock: non-decreasing from message to message
Next ==
    \/ init
    \/ \E now \in MonotoneClock(time) : create_product(now)
    \/ \E now \in MonotoneClock(time) : add_supply_chain_event(now)
    \/ \E now \in MonotoneClock(time), a \in ParticipantArgs : register_participant(now, a)
    \/ Queries

Spec == Init /\ [][Next]_vars

(***************************************************************************)
(* The authenticity scan on stored traces of any shape.  The handlers      *)
(* store whatever the clock returns, so the states here are those after    *)
(* init, one create_product and up to MaxCalls add_supply_chain_event      *)
(* calls for that product, each call at an arbitrary clock value; they are *)
(* built with the handlers' own operators.  The only step is the query.    *)
(***************************************************************************)
\* the trace after the appends calls[i..], each <<clock value, arguments>>
RECURSIVE TraceAfter(_, _, _)
TraceAfter(trace, calls, i) ==
    IF i > Len(calls) THEN trace
    ELSE LET now == calls[i][1]
             event == NewEvent(generate_id(now), trace.product_id, calls[i][2], now)
         IN  TraceAfter(PushEvent(trace, event, now), calls, i + 1)

\* the flat event map after the inserts of events[i..] into map
RECURSIVE EventsAfter(_, _, _)
EventsAfter(map, events, i) ==
    IF i > Len(events) THEN map
    ELSE EventsAfter(Insert(map, events[i].id, events[i]), events, i + 1)

InitVerify ==
    \E t0 \in ClockValues, a0 \in ProductArgs, n \in 0..MaxCalls :
      \E calls \in [1..n -> ClockValues \X EventArgs] :
        LET product_id == generate_id(t0)
            trace == TraceAfter(NewTrace(product_id, t0), calls, 1)
        IN  /\ PRODUCTS = Some(Insert(EmptyMap, product_id, NewProduct(product_id, a0, t0)))
            /\ TRACES = Some(Insert(EmptyMap, product_id, trace))
            /\ EVENTS = Some(EventsAfter(EmptyMap, trace.events, 1))
            /\ PARTICIPANTS = Some(EmptyMap)
            /\ time = IF n = 0 THEN t0 ELSE calls[n][1]
            /\ ret = IF n = 0
                     THEN Call("create_product", "", product_id)
                     ELSE Call("add_supply_chain_event", product_id, trace.events[n].id)
            /\ created = <<[id |-> product_id, arg |-> a0, now |-> t0]>>
            /\ appended = [i \in 1..n |-> [product_id |-> product_id, event |-> trace.events[i]]]
            /\ registered = <<>>

NextVerify == verify_product_authenticity

SpecVerify == InitVerify /\ [][NextVerify]_vars

(***************************************************************************)
(* The participants alone: after init, up to two register_participant      *)
(* calls.  The clock readings lie at both ends of a coarse timestamp and   *)
(* of a period of the id's second part, so that readings with equal and    *)
(* with different ids occur, and the two calls may differ in arguments.    *)
(***************************************************************************)
IdClockValues ==
    {s * NanosPerStamp + k * IdModulus + o :
        s \in 0..MaxIdStamp,
        k \in {0, 1, (NanosPerStamp \div IdModulus) - 1},
        o \in {0, 1, IdModulus - 1}}

InitParticipants ==
    /\ PRODUCTS = Some(EmptyMap)
    /\ TRACES = Some(EmptyMap)
    /\ EVENTS = Some(EmptyMap)
    /\ PARTICIPANTS = Some(EmptyMap)
    /\ time = 0
    /\ ret = Call("init", "", "")
    /\ created = <<>>
    /\ appended = <<>>
    /\ registered = <<>>

NextParticipants ==
    \/ \E now \in {c \in IdClockValues : c >= time}, a \in MoreParticipantArgs :
          /\ Len(registered) < 2
          /\ register_participant(now, a)
    \/ get_participants

SpecParticipants == InitParticipants /\ [][NextParticipants]_vars

(***************************************************************************)
(* add_supply_chain_event applied to stores in which a product has no      *)
(* trace: the case its else branch ("ERROR: Trace not found") is written   *)
(* for.  create_product inserts product and trace together, so no sequence *)
(* of calls leads here; the handler is taken as a function of the stores   *)
(* and of its arguments.                                                   *)
(***************************************************************************)
InitNoTrace ==
    /\ \E c \in ClockValues, a \in ProductArgs :
          /\ PRODUCTS = Some(Insert(EmptyMap, generate_id(c), NewProduct(generate_id(c), a, c)))
          /\ time = c
    /\ TRACES = Some(EmptyMap)
    /\ EVENTS = Some(EmptyMap)
    /\ PARTICIPANTS = Some(EmptyMap)
    /\ ret = NoCall
    /\ created = <<>>
    /\ appended = <<>>
    /\ registered = <<>>

NextNoTrace == \E now \in MonotoneClock(time) : add_supply_chain_event(now)

SpecNoTrace == InitNoTrace /\ [][NextNoTrace]_vars

(***************************************************************************)
(* Vocabulary of the claims.                                               *)
(***************************************************************************)
\* a step of the named update handler: every update handler leaves its record in ret,
\* and the query handlers change nothing
StepOf(op) == ret'.op = op /\ vars' # vars

\* the events of the logged add_supply_chain_event calls for product_id, in call order
AppendedTo(product_id) ==
    LET calls == SelectSeq(appended, LAMBDA c : c.product_id = product_id)
    IN  [i \in 1..Len(calls) |-> calls[i].event]

\* the timestamps of a trace's events, in stored order
Timestamps(trace) == [i \in 1..Len(trace.events) |-> trace.events[i].timestamp]

\* some timestamp is strictly less than an earlier one
Regresses(ts) == \E i, j \in 1..Len(ts) : i < j /\ ts[j] < ts[i]

IsPrefix(s, t) == Len(s) <= Len(t) /\ \A i \in 1..Len(s) : s[i] = t[i]

(***************************************************************************)
(* C1: add_supply_chain_event with a product_id that is not a key of the   *)
(* product store returns "Product not found" and leaves the four stores as *)
(* they were, in any state.                                                *)
(***************************************************************************)
C1_AtomicReject ==
    [][ (StepOf("add_supply_chain_event") /\ ret'.arg \notin Keys(PRODUCTS))
            => (ret'.result = ProductNotFound /\ stores' = stores) ]_vars

(***************************************************************************)
(* C2: for every existing product verify_product_authenticity returns      *)
(* Ok(true) exactly when the trace is non-empty and no timestamp is        *)
(* strictly less than an earlier one in stored order, and Ok(false)        *)
(* otherwise; equal timestamps are accepted.                               *)
(***************************************************************************)
C2_Verdict ==
    \A product_id \in Keys(PRODUCTS) :
        LET result == verify_product_authenticity_result(product_id)
            found == get_supply_chain_trace_result(product_id)
        IN  /\ found # None
            /\ result.tag = "Ok"
            /\ result.val = (/\ Unwrap(found).events # <<>>
                             /\ ~Regresses(Timestamps(Unwrap(found))))

\* a product of three events, the first two in order and the third earlier than the
\* second, has the verdict false
C2_Witness ==
    \E product_id \in Keys(PRODUCTS) :
        LET ts == Timestamps(Unwrap(TRACES)[product_id])
        IN  /\ Len(ts) = 3
            /\ ts[1] <= ts[2]
            /\ ts[3] < ts[2]
            /\ verify_product_authenticity_result(product_id) = Ok(FALSE)

(***************************************************************************)
(* C3: once events E1..EN were appended to product P in that order, the    *)
(* trace of P holds exactly [E1..EN] and its last_updated is the timestamp *)
(* of EN.                                                                  *)
(***************************************************************************)
C3_ArrivalOrder ==
    \A product_id \in IdInputs :
        LET es == AppendedTo(product_id)
            found == get_supply_chain_trace_result(product_id)
        IN  Len(es) > 0 =>
                /\ found # None
                /\ Unwrap(found).events = es
                /\ Unwrap(found).last_updated = es[Len(es)].timestamp

(***************************************************************************)
(* C4: traces are append-only: a trace's length is the number of appends   *)
(* that succeeded for its product, and its events in a state are a prefix  *)
(* of its events in every later state.                                     *)
(***************************************************************************)
C4_AppendOnly ==
    /\ [](\A product_id \in Keys(TRACES) :
            Len(Unwrap(TRACES)[product_id].events) = Len(AppendedTo(product_id)))
    /\ [][\A product_id \in Keys(TRACES) :
            /\ product_id \in Keys(TRACES')
            /\ IsPrefix(Unwrap(TRACES)[product_id].events,
                        Unwrap(TRACES')[product_id].events)]_vars

(***************************************************************************)
(* C5: every event of every trace is in the flat event map under its id,   *)
(* equal field for field, and an entry of the flat map is never            *)
(* overwritten or removed.                                                 *)
(***************************************************************************)
C5_CopiesInSync ==
    /\ [](\A product_id \in Keys(TRACES) :
            LET events == Unwrap(TRACES)[product_id].events
            IN  \A i \in 1..Len(events) :
                    /\ events[i].id \in Keys(EVENTS)
                    /\ Unwrap(EVENTS)[events[i].id] = events[i])
    /\ [][\A event_id \in Keys(EVENTS) :
            /\ event_id \in Keys(EVENTS')
            /\ Unwrap(EVENTS')[event_id] = Unwrap(EVENTS)[event_id]]_vars

(***************************************************************************)
(* C6: for every create_product call on an initialized store that returned *)
(* id P, get_product(P) at any later point returns the record with id P,   *)
(* the arguments of that call and the clock value of that call.            *)
(***************************************************************************)
C6_CreateGetRoundTrip ==
    \A k \in 1..Len(created) :
        LET c == created[k]
            result == get_product_result(c.id)
        IN  /\ result.tag = "Ok"
            /\ result.val = [id |-> c.id, name |-> c.arg.name,
                             description |-> c.arg.description,
                             manufacturer |-> c.arg.manufacturer,
                             batch_number |-> c.arg.batch_number,
                             production_date |-> c.now \div NanosPerStamp,
                             ingredients |-> c.arg.ingredients,
                             certifications |-> c.arg.certifications]

(***************************************************************************)
(* C7: right after create_product returned id P on an initialized store,   *)
(* the trace of P has product_id P, no events, and created_at equal to     *)
(* last_updated.                                                           *)
(***************************************************************************)
C7_FreshTrace ==
    (ret.op = "create_product" /\ Initialized) =>
        LET found == get_supply_chain_trace_result(ret.result)
        IN  /\ found # None
            /\ Unwrap(found).product_id = ret.result
            /\ Unwrap(found).events = <<>>
            /\ Unwrap(found).created_at = Unwrap(found).last_updated

\* create_product has just returned an id that events were appended to before
C7_Witness ==
    /\ ret.op = "create_product"
    /\ Initialized
    /\ Len(AppendedTo(ret.result)) > 0
    /\ get_supply_chain_trace_result(ret.result) # None

(***************************************************************************)
(* C8: on an initialized store verify_product_authenticity of an id that   *)
(* is not in the product store is the error "Product not found", whatever  *)
(* else is stored under that id.                                           *)
(***************************************************************************)
C8_UnknownProduct ==
    Initialized =>
        \A product_id \in IdInputs \ Keys(PRODUCTS) :
            LET result == verify_product_authenticity_result(product_id)
            IN  result.tag = "Err" /\ result.val = "Product not found"

\* the id of a stored event is not the id of a product, and is reported not found
C8_Witness ==
    /\ Initialized
    /\ \E product_id \in Keys(EVENTS) \ Keys(PRODUCTS) :
          verify_product_authenticity_result(product_id) = Err("Product not found")

(***************************************************************************)
(* C9: the trace store and the product store have the same keys, every     *)
(* trace's product_id is its key, and every event of a trace has the       *)
(* trace's product_id.                                                     *)
(***************************************************************************)
C9_ProductTraceCorrespondence ==
    /\ Keys(TRACES) = Keys(PRODUCTS)
    /\ \A k \in Keys(TRACES) :
          LET trace == Unwrap(TRACES)[k]
          IN  /\ trace.product_id = k
              /\ \A i \in 1..Len(trace.events) : trace.events[i].product_id = k

\* two products, one of them with an event
C9_Witness ==
    /\ Cardinality(Keys(PRODUCTS)) = 2
    /\ \E k \in Keys(TRACES) : Unwrap(TRACES)[k].events # <<>>

(***************************************************************************)
(* C10: with a clock that never goes back, every trace has                 *)
(* last_updated >= created_at, and no operation decreases a trace's        *)
(* last_updated or changes its created_at.                                 *)
(***************************************************************************)
C10_TraceTimes ==
    /\ [](\A k \in Keys(TRACES) :
            Unwrap(TRACES)[k].last_updated >= Unwrap(TRACES)[k].created_at)
    /\ [][\A k \in Keys(TRACES) :
            /\ k \in Keys(TRACES')
            /\ Unwrap(TRACES')[k].last_updated >= Unwrap(TRACES)[k].last_updated
            /\ Unwrap(TRACES')[k].created_at = Unwrap(TRACES)[k].created_at]_vars

\* a trace that was updated after the coarse timestamp of its creation
C10_Witness ==
    \E k \in Keys(TRACES) :
        Unwrap(TRACES)[k].last_updated > Unwrap(TRACES)[k].created_at

(***************************************************************************)
(* C11: two successful creation calls of the same kind return different    *)
(* ids and leave two records: every store has as many records as there     *)
(* were successful creations of its kind.                                  *)
(***************************************************************************)
C11_UniqueIds ==
    /\ \A i, j \in 1..Len(created) : i # j => created[i].id # created[j].id
    /\ \A i, j \in 1..Len(appended) : i # j => appended[i].event.id # appended[j].event.id
    /\ \A i, j \in 1..Len(registered) : i # j => registered[i].id # registered[j].id
    /\ Cardinality(Keys(PRODUCTS)) = Len(created)
    /\ Cardinality(Keys(EVENTS)) = Len(appended)
    /\ Cardinality(Keys(PARTICIPANTS)) = Len(registered)

(***************************************************************************)
(* C12: every stored time field is the number of whole seconds since the   *)
(* epoch at the moment of the operation: the clock reading in nanoseconds  *)
(* divided by 1_000_000_000.                                               *)
(***************************************************************************)
C12_WholeSeconds ==
    /\ (ret.op = "create_product" /\ Initialized) =>
          /\ Unwrap(PRODUCTS)[ret.result].production_date = time \div 1000000000
          /\ Unwrap(TRACES)[ret.result].created_at = time \div 1000000000
          /\ Unwrap(TRACES)[ret.result].last_updated = time \div 1000000000
    /\ (ret.op = "add_supply_chain_event" /\ Initialized /\ ret.result # ProductNotFound) =>
          /\ Unwrap(EVENTS)[ret.result].timestamp = time \div 1000000000
          /\ Unwrap(TRACES)[ret.arg].last_updated = time \div 1000000000

(***************************************************************************)
(* C13: products are immutable and never deleted: once get_product(id)     *)
(* has returned a record, every later get_product(id) returns that record. *)
(***************************************************************************)
C13_ProductsImmutable ==
    [][\A product_id \in IdInputs :
          get_product_result(product_id).tag = "Ok" =>
              (get_product_result(product_id))' = get_product_result(product_id)]_vars

(***************************************************************************)
(* C14: the id is a function of the clock reading alone, and the ids of    *)
(* two readings are equal exactly when the readings agree in the quotient  *)
(* by 1_000_000 and in the remainder by 10000.                             *)
(***************************************************************************)
C14_IdCollision ==
    \A i, j \in 1..Len(registered) :
        (registered[i].id = registered[j].id)
            <=> (/\ registered[i].now \div 1000000 = registered[j].now \div 1000000
                 /\ registered[i].now % 10000 = registered[j].now % 10000)

\* two calls at different clock readings got the same id
C14_Witness ==
    /\ Len(registered) = 2
    /\ registered[1].now # registered[2].now
    /\ registered[1].id = registered[2].id

C16_WriteOnce ==
    /\ \A id \in Keys(PARTICIPANTS) : Unwrap(PARTICIPANTS)[id].is_verified = FALSE
    /\ \A k \in 1..Len(registered) :
          LET call == registered[k]
          IN  /\ call.id \in Keys(PARTICIPANTS)
              /\ LET p == Unwrap(PARTICIPANTS)[call.id]
                 IN  /\ p.name = call.arg.name
                     /\ p.role = call.arg.role
                     /\ p.location = call.arg.location
                     /\ p.public_key = call.arg.public_key

(***************************************************************************)
(* C17: before init, get_product and verify_product_authenticity return    *)
(* Err("Products not initialized"), get_supply_chain_trace returns absent, *)
(* get_all_products and get_participants return the empty sequence, and    *)
(* create_product, add_supply_chain_event and register_participant leave   *)
(* all four stores uninitialized; the four stores are initialized          *)
(* together, and verify_product_authenticity never returns                 *)
(* Err("Traces not initialized").                                          *)
(***************************************************************************)
C17_NotInitialized ==
    /\ [](/\ ~Initialized =>
                /\ PRODUCTS = None /\ TRACES = None /\ EVENTS = None /\ PARTICIPANTS = None
                /\ \A id \in IdInputs :
                      /\ get_product_result(id) = Err("Products not initialized")
                      /\ verify_product_authenticity_result(id) = Err("Products not initialized")
                      /\ get_supply_chain_trace_result(id) = None
                /\ Values(PRODUCTS) = {<<>>}
                /\ Values(PARTICIPANTS) = {<<>>}
          /\ \A id \in IdInputs :
                LET r == verify_product_authenticity_result(id)
                IN  ~(r.tag = "Err" /\ r.val = "Traces not initialized"))
    /\ [][(/\ ~Initialized
           /\ ret'.op \in {"create_product", "add_supply_chain_event", "register_participant"})
             => (/\ stores' = stores
                 /\ PRODUCTS' = None /\ TRACES' = None /\ EVENTS' = None /\ PARTICIPANTS' = None)]_vars

\* create_product was called before init and stored nothing
C17_Witness ==
    /\ ~Initialized
    /\ ret.op = "create_product"
    /\ get_product_result(ret.result) = Err("Products not initialized")

(***************************************************************************)
(* C18: with non-decreasing clock readings, the timestamps of every trace  *)
(* are non-decreasing, and verify_product_authenticity on an existing      *)
(* product returns Ok(true) exactly when its trace has at least one event  *)
(* and Ok(false) exactly when it has none.                                 *)
(***************************************************************************)
C18_InOrder ==
    \A id \in Keys(PRODUCTS) :
        /\ id \in Keys(TRACES)
        /\ LET trace == Unwrap(TRACES)[id]
               r == verify_product_authenticity_result(id)
           IN  /\ ~Regresses(Timestamps(trace))
               /\ r.tag = "Ok"
               /\ r.val = (trace.events # <<>>)

\* a trace with events of different timestamps is verified
C18_Witness ==
    \E id \in Keys(PRODUCTS) :
        LET ts == Timestamps(Unwrap(TRACES)[id])
        IN  /\ Len(ts) >= 2
            /\ ts[1] < ts[Len(ts)]
            /\ verify_product_authenticity_result(id) = Ok(TRUE)

(***************************************************************************)
(* C19: a successful add_supply_chain_event for product P leaves the       *)
(* product store, the participant store and the trace of every other       *)
(* product unchanged; register_participant changes only the participant    *)
(* store; create_product changes neither the participant store nor the     *)
(* flat event map; the five queries change no store.                       *)
(***************************************************************************)
C19_Frame ==
    [][/\ (StepOf("add_supply_chain_event") /\ ret'.result # ProductNotFound) =>
             /\ PRODUCTS' = PRODUCTS
             /\ PARTICIPANTS' = PARTICIPANTS
             /\ Keys(TRACES') = Keys(TRACES)
             /\ \A id \in Keys(TRACES) \ {ret'.arg} : Unwrap(TRACES')[id] = Unwrap(TRACES)[id]
       /\ StepOf("register_participant") =>
             /\ PRODUCTS' = PRODUCTS /\ TRACES' = TRACES /\ EVENTS' = EVENTS
       /\ StepOf("create_product") =>
             /\ PARTICIPANTS' = PARTICIPANTS /\ EVENTS' = EVENTS
       /\ stores' # stores =>
             ~(\/ get_product \/ get_supply_chain_trace \/ get_all_products
               \/ get_participants \/ verify_product_authenticity)]_vars

\* an event was appended to one of two traces, and the other trace kept its older stamp
C19_Witness ==
    /\ Initialized
    /\ ret.op = "add_supply_chain_event"
    /\ ret.arg \in Keys(TRACES)
    /\ ret.result \in Keys(EVENTS)
    /\ \E id \in Keys(TRACES) \ {ret.arg} :
          Unwrap(TRACES)[id].last_updated < Unwrap(TRACES)[ret.arg].last_updated

====
